---- MODULE Spec2Model ----
(***************************************************************************)
(* airbyte_cdk/models/airbyte_protocol_serializers.py                      *)
(*                                                                         *)
(* The module defines the codec of the opaque state blob                   *)
(* (AirbyteStateBlobType), the resolver that hands this codec to the       *)
(* serialization library (custom_type_resolver) and eight module-level     *)
(* serializers.  Python objects are modelled as tagged records:            *)
(*   [cls |-> "NoneType"]                      None                        *)
(*   [cls |-> "str", v |-> s]                  a primitive                 *)
(*   [cls |-> C, order |-> seq, items |-> f]   a dict (C = "dict") or an   *)
(*        instance of class C with attribute dictionary f, whose keys were *)
(*        inserted in the order seq (Python dicts keep insertion order).   *)
(***************************************************************************)
EXTENDS Naturals, Sequences, FiniteSets, TLC

VARIABLES module, pc, call, result, codec_calls

vars == <<module, pc, call, result, codec_calls>>

(***************************************************************************)
(* Bounds of the model.                                                    *)
(***************************************************************************)
\* largest number of attributes of a state blob / keys of a free-form dict
MaxAttrs == 2

(***************************************************************************)
(* Python values.                                                          *)
(***************************************************************************)
PyNone == [cls |-> "NoneType"]

Str(s) == [cls |-> "str", v |-> s]

Obj(c, o, f) == [cls |-> c, order |-> o, items |-> f]

EmptyDict == Obj("dict", <<>>, <<>>)

IsNone(x) == x.cls = "NoneType"

HasItems(x) == x.cls \notin {"NoneType", "str", "DecodeError", "AttributeError"}

isinstance(value, c) == value.cls = c

\* the set of the elements of a sequence
Range(s) == {s[i] : i \in DOMAIN s}

\* all the orders in which the keys S can have been inserted
Perms(S) == {s \in [1..Cardinality(S) -> S] : \A i, j \in 1..Cardinality(S) : i # j => s[i] # s[j]}

\* Python's ==: dicts and instances compare by class and content, whatever the
\* insertion order of their keys
RECURSIVE PyEq(_, _)
PyEq(a, b) ==
    IF a.cls # b.cls THEN FALSE
    ELSE IF HasItems(a)
         THEN /\ DOMAIN a.items = DOMAIN b.items
              /\ \A k \in DOMAIN a.items : PyEq(a.items[k], b.items[k])
         ELSE a = b

(***************************************************************************)
(* AirbyteStateBlob (airbyte_protocol.py): the constructor called with one *)
(* mapping gives an object whose attributes are the keys and values of the *)
(* mapping.                                                                *)
(***************************************************************************)
AirbyteStateBlob(arg) == Obj("AirbyteStateBlob", arg.order, arg.items)

(***************************************************************************)
(* class AirbyteStateBlobType(CustomType[AirbyteStateBlob, str])           *)
(***************************************************************************)
\* a comprehension over value.__dict__.items() on an object without
\* the attribute dictionary of a blob
serialize_unguarded(value) ==
    IF isinstance(value, "AirbyteStateBlob")
    THEN Obj("dict", value.order, value.items)
    ELSE [cls |-> "AttributeError"]

\* the comprehension keeps only the names without a leading underscore
serialize_public_only(value) ==
    IF isinstance(value, "AirbyteStateBlob")
    THEN Obj("dict",
             SelectSeq(value.order, LAMBDA k : k \notin {"__ab_full_refresh_sync_complete"}),
             [k \in DOMAIN value.items \ {"__ab_full_refresh_sync_complete"} |-> value.items[k]])
    ELSE value

\* the comprehension leaves out the attributes whose value is None
serialize_drops_none(value) ==
    IF isinstance(value, "AirbyteStateBlob")
    THEN LET keep == {k \in DOMAIN value.items : ~IsNone(value.items[k])}
         IN  Obj("dict", SelectSeq(value.order, LAMBDA k : k \in keep),
                 [k \in keep |-> value.items[k]])
    ELSE value

\* {k: v for k, v in value.__dict__.items()} if isinstance(value, AirbyteStateBlob) else value
serialize(value) ==
    IF isinstance(value, "AirbyteStateBlob")
    THEN Obj("dict", value.order, value.items)
    ELSE value

\* AirbyteStateBlob() without the mapping
deserialize_empty(value) == AirbyteStateBlob(EmptyDict)

\* return AirbyteStateBlob(value)
deserialize(value) == AirbyteStateBlob(value)

\* return {"type": "object"}
get_json_schema == Obj("dict", <<"type">>, [k \in {"type"} |-> Str("object")])

(***************************************************************************)
(* def custom_type_resolver(t: type) -> CustomType | None                  *)
(***************************************************************************)
\* the types the library asks the resolver about while it builds a schema
Types == {"AirbyteStateBlob", "Optional[AirbyteStateBlob]", "str", "dict",
          "AirbyteStreamState", "AirbyteStateMessage", "AirbyteMessage",
          "AirbyteCatalog", "ConfiguredAirbyteCatalog", "ConfiguredAirbyteStream",
          "AdvancedAuth", "ConnectorSpecification"}

\* a resolver that answers for every class of the protocol
custom_type_resolver_any(t) ==
    IF t \notin {"str", "dict"} THEN "AirbyteStateBlobType" ELSE "None"

\* return AirbyteStateBlobType() if t is AirbyteStateBlob else None
custom_type_resolver(t) ==
    IF t = "AirbyteStateBlob" THEN "AirbyteStateBlobType" ELSE "None"

(***************************************************************************)
(* The module-level serializers.                                           *)
(***************************************************************************)
\* Serializer(t, omit_none=..., custom_type_resolver=...)
Serializer(t, omit_none, resolver) ==
    [type |-> t, omit_none |-> omit_none, custom_type_resolver |-> resolver]

AirbyteStreamStateSerializer == Serializer("AirbyteStreamState", TRUE, "custom_type_resolver")

AirbyteStateMessageSerializer == Serializer("AirbyteStateMessage", TRUE, "custom_type_resolver")

AirbyteMessageSerializer == Serializer("AirbyteMessage", TRUE, "custom_type_resolver")

\* the catalog serializer built like the three above it
AirbyteCatalogSerializer_resolver == Serializer("AirbyteCatalog", TRUE, "custom_type_resolver")

AirbyteCatalogSerializer == Serializer("AirbyteCatalog", TRUE, "None")

ConfiguredAirbyteCatalogSerializer == Serializer("ConfiguredAirbyteCatalog", TRUE, "None")

ConfiguredAirbyteStreamSerializer == Serializer("ConfiguredAirbyteStream", TRUE, "None")

\* the serializer built without omit_none (the library's default is False)
AdvancedAuthSerializer_keep_none == Serializer("AdvancedAuth", FALSE, "None")

AdvancedAuthSerializer == Serializer("AdvancedAuth", TRUE, "None")

ConnectorSpecificationSerializer == Serializer("ConnectorSpecification", TRUE, "None")

SerializerNames == {"AirbyteStreamStateSerializer", "AirbyteStateMessageSerializer",
                    "AirbyteMessageSerializer", "AirbyteCatalogSerializer",
                    "ConfiguredAirbyteCatalogSerializer", "ConfiguredAirbyteStreamSerializer",
                    "AdvancedAuthSerializer", "ConnectorSpecificationSerializer"}

\* the names the module binds when it is imported
ModuleAtImport ==
    [n \in SerializerNames |->
        CASE n = "AirbyteStreamStateSerializer" -> AirbyteStreamStateSerializer
          [] n = "AirbyteStateMessageSerializer" -> AirbyteStateMessageSerializer
          [] n = "AirbyteMessageSerializer" -> AirbyteMessageSerializer
          [] n = "AirbyteCatalogSerializer" -> AirbyteCatalogSerializer
          [] n = "ConfiguredAirbyteCatalogSerializer" -> ConfiguredAirbyteCatalogSerializer
          [] n = "ConfiguredAirbyteStreamSerializer" -> ConfiguredAirbyteStreamSerializer
          [] n = "AdvancedAuthSerializer" -> AdvancedAuthSerializer
          [] n = "ConnectorSpecificationSerializer" -> ConnectorSpecificationSerializer]

(***************************************************************************)
(* The dataclasses the serializers are bound to (airbyte_protocol.py), as  *)
(* the library sees them: the fields in declaration order, each with its   *)
(* declared type, whether it is required (it has no default) and its       *)
(* default.  Nested types that hold no state blob are kept as primitives.  *)
(***************************************************************************)
Field(name, type, required, default) ==
    [name |-> name, type |-> type, required |-> required, default |-> default]

RecordTypes == {"AirbyteStreamState", "AirbyteStateMessage", "AirbyteMessage",
                "AirbyteCatalog", "ConfiguredAirbyteCatalog", "ConfiguredAirbyteStream",
                "AdvancedAuth", "ConnectorSpecification"}

Schema(t) ==
    CASE t = "AirbyteStreamState" ->
            <<Field("stream_descriptor", "str", TRUE, PyNone),
              Field("stream_state", "AirbyteStateBlob", FALSE, PyNone)>>
      [] t = "AirbyteStateMessage" ->
            <<Field("type", "str", FALSE, PyNone),
              Field("stream", "AirbyteStreamState", FALSE, PyNone)>>
      [] t = "AirbyteMessage" ->
            <<Field("type", "str", TRUE, PyNone),
              Field("state", "AirbyteStateMessage", FALSE, PyNone)>>
      [] t = "AirbyteCatalog" ->
            <<Field("streams", "str", TRUE, PyNone)>>
      [] t = "ConfiguredAirbyteCatalog" ->
            <<Field("streams", "str", TRUE, PyNone)>>
      [] t = "ConfiguredAirbyteStream" ->
            <<Field("stream", "str", TRUE, PyNone),
              Field("sync_mode", "str", TRUE, PyNone),
              Field("cursor_field", "str", FALSE, PyNone)>>
      [] t = "AdvancedAuth" ->
            <<Field("auth_flow_type", "str", FALSE, PyNone),
              Field("predicate_key", "str", FALSE, PyNone)>>
      [] t = "ConnectorSpecification" ->
            <<Field("connectionSpecification", "str", TRUE, PyNone),
              Field("supportsNormalization", "str", FALSE, Str("False"))>>

FieldNames(t) == [i \in DOMAIN Schema(t) |-> Schema(t)[i].name]

RequiredNames(t) == {Schema(t)[i].name : i \in {j \in DOMAIN Schema(t) : Schema(t)[j].required}}

OptionalNames(t) == Range(FieldNames(t)) \ RequiredNames(t)

FieldOf(t, name) == CHOOSE f \in Range(Schema(t)) : f.name = name

(***************************************************************************)
(* Serializer.dump and Serializer.load of the library, for a serializer    *)
(* s = Serializer(t, omit_none, resolver).  Both return the value and the  *)
(* number of times the traversal called the codec.                         *)
(***************************************************************************)
DecodeError(kind, name) == [cls |-> "DecodeError", kind |-> kind, field |-> name]

IsError(x) == x.cls = "DecodeError"

\* the codec the serializer s has for the declared type t
resolve(s, t) ==
    IF s.custom_type_resolver = "custom_type_resolver" THEN custom_type_resolver(t) ELSE "None"

\* the mapping or instance m with key k added last
Emit(m, k, v) ==
    Obj(m.cls, Append(m.order, k),
        [x \in DOMAIN m.items \cup {k} |-> IF x = k THEN v ELSE m.items[x]])

RECURSIVE dump_value(_, _, _), dump_fields(_, _, _, _)

\* every key is written in the order the input's attributes were set
dump_fields_attr_order(s, fields, rec, acc) ==
    IF fields = <<>> THEN acc
    ELSE LET names == SelectSeq(rec.order, LAMBDA n : n \in {fields[i].name : i \in DOMAIN fields})
             f == CHOOSE g \in Range(fields) : g.name = Head(names)
             d == dump_value(s, f.type, rec.items[f.name])
             keep == f.required \/ ~s.omit_none \/ ~IsNone(d.out)
         IN  dump_fields(s, SelectSeq(fields, LAMBDA g : g # f), rec,
                         [out |-> IF keep THEN Emit(acc.out, f.name, d.out) ELSE acc.out,
                          calls |-> acc.calls + d.calls])

dump_fields(s, fields, rec, acc) ==
    IF fields = <<>> THEN acc
    ELSE LET f == Head(fields)
             d == dump_value(s, f.type, rec.items[f.name])
             keep == f.required \/ ~s.omit_none \/ ~IsNone(d.out)
         IN  dump_fields(s, Tail(fields), rec,
                         [out |-> IF keep THEN Emit(acc.out, f.name, d.out) ELSE acc.out,
                          calls |-> acc.calls + d.calls])

dump_value(s, t, value) ==
    IF IsNone(value) THEN [out |-> PyNone, calls |-> 0]
    ELSE IF resolve(s, t) = "AirbyteStateBlobType"
         THEN [out |-> serialize(value), calls |-> 1]
    ELSE IF t \in RecordTypes
         THEN dump_fields(s, Schema(t), value, [out |-> EmptyDict, calls |-> 0])
    ELSE IF t = "AirbyteStateBlob"
         THEN [out |-> EmptyDict, calls |-> 0]     \* a dataclass that declares no field
    ELSE [out |-> value, calls |-> 0]

dump(s, rec) == dump_value(s, s.type, rec)

RECURSIVE load_value(_, _, _), load_fields(_, _, _, _)

\* a missing required field is left out of the instance
load_fields_partial(s, fields, g, acc) ==
    IF fields = <<>> THEN acc
    ELSE LET f == Head(fields)
         IN  IF f.name \notin DOMAIN g.items
             THEN IF f.required
                  THEN load_fields(s, Tail(fields), g, acc)
                  ELSE load_fields(s, Tail(fields), g,
                                   [out |-> Emit(acc.out, f.name, f.default), calls |-> acc.calls])
             ELSE LET v == g.items[f.name]
                      d == IF IsNone(v)
                           THEN [out |-> IF f.required
                                         THEN DecodeError("TypeMismatch", f.name)
                                         ELSE PyNone,
                                 calls |-> 0]
                           ELSE load_value(s, f.type, v)
                  IN  IF IsError(d.out)
                      THEN [out |-> d.out, calls |-> acc.calls + d.calls]
                      ELSE load_fields(s, Tail(fields), g,
                                       [out |-> Emit(acc.out, f.name, d.out),
                                        calls |-> acc.calls + d.calls])

load_fields(s, fields, g, acc) ==
    IF fields = <<>> THEN acc
    ELSE LET f == Head(fields)
         IN  IF f.name \notin DOMAIN g.items
             THEN IF f.required
                  THEN [out |-> DecodeError("MissingField", f.name), calls |-> acc.calls]
                  ELSE load_fields(s, Tail(fields), g,
                                   [out |-> Emit(acc.out, f.name, f.default), calls |-> acc.calls])
             ELSE LET v == g.items[f.name]
                      d == IF IsNone(v)
                           THEN [out |-> IF f.required
                                         THEN DecodeError("TypeMismatch", f.name)
                                         ELSE PyNone,
                                 calls |-> 0]
                           ELSE load_value(s, f.type, v)
                  IN  IF IsError(d.out)
                      THEN [out |-> d.out, calls |-> acc.calls + d.calls]
                      ELSE load_fields(s, Tail(fields), g,
                                       [out |-> Emit(acc.out, f.name, d.out),
                                        calls |-> acc.calls + d.calls])

load_value(s, t, g) ==
    IF resolve(s, t) = "AirbyteStateBlobType"
    THEN [out |-> deserialize(g), calls |-> 1]
    ELSE IF t \in RecordTypes
         THEN IF ~isinstance(g, "dict")
              THEN [out |-> DecodeError("TypeMismatch", t), calls |-> 0]
              ELSE load_fields(s, Schema(t), g, [out |-> Obj(t, <<>>, <<>>), calls |-> 0])
    ELSE IF t = "AirbyteStateBlob"
         THEN [out |-> Obj(t, <<>>, <<>>), calls |-> 0]   \* a dataclass that declares no field
    ELSE IF ~isinstance(g, "str")
         THEN [out |-> DecodeError("TypeMismatch", t), calls |-> 0]
    ELSE [out |-> g, calls |-> 0]

load(s, g) == load_value(s, s.type, g)

(***************************************************************************)
(* The objects the callers hold: state blobs, free-form dicts, instances   *)
(* of the eight dataclasses, and the generic mappings handed to load.      *)
(***************************************************************************)
\* attribute names of a state blob; the second one is the name the comment
\* in serialize calls private
AttrNames == {"cursor", "id", "__ab_full_refresh_sync_complete"}

PrivateNames == {"__ab_full_refresh_sync_complete"}

AttrValues == {Str("v1"), PyNone}

Mappings(c) ==
    UNION {{Obj(c, o, f) : o \in Perms(K), f \in [K -> AttrValues]} :
           K \in {K \in SUBSET AttrNames : Cardinality(K) <= MaxAttrs}}

Blobs == Mappings("AirbyteStateBlob")

FreeDicts == Mappings("dict")

RECURSIVE Instances(_, _), Generics(_), Fill(_, _, _)

\* the values an attribute declared as f can hold; serialize takes
\* "AirbyteStateBlob | Dict[str, Any]", so a blob field may hold a plain dict
FieldValues(f) ==
    (IF f.required THEN {} ELSE {PyNone})
    \cup (CASE f.type = "AirbyteStateBlob" -> Blobs \cup FreeDicts
            [] f.type \in RecordTypes -> Instances(f.type, FALSE)
            [] OTHER -> IF f.default = PyNone THEN {Str("a")} ELSE {Str("True"), f.default})

\* the values a key of a generic mapping can hold for a field declared as f
GenericValues(f) ==
    {PyNone}
    \cup (CASE f.type = "AirbyteStateBlob" -> FreeDicts
            [] f.type \in RecordTypes -> Generics(f.type)
            [] OTHER -> {Str("a")})

\* the objects of acc with the fields added one after the other; in a generic
\* mapping any key can be absent
Fill(fields, acc, generic) ==
    IF fields = <<>> THEN acc
    ELSE LET f == Head(fields)
             values == IF generic THEN GenericValues(f) ELSE FieldValues(f)
         IN  Fill(Tail(fields),
                  {Emit(m, f.name, v) : m \in acc, v \in values}
                      \cup (IF generic THEN acc ELSE {}),
                  generic)

\* the instances of dataclass t; permuted: with the attributes set in any order
Instances(t, permuted) ==
    LET base == Fill(Schema(t), {Obj(t, <<>>, <<>>)}, FALSE)
    IN  IF permuted
        THEN {Obj(t, o, m.items) : m \in base, o \in Perms(Range(FieldNames(t)))}
        ELSE base

\* the generic mappings over the keys of dataclass t
Generics(t) == Fill(Schema(t), {EmptyDict}, TRUE)

AllObjects ==
    Blobs \cup FreeDicts
    \cup UNION {Instances(t, TRUE) : t \in RecordTypes}
    \cup UNION {Generics(t) : t \in RecordTypes}

\* one state blob with a private and a public attribute and what is built
\* around it, and mappings with a required or an optional key absent; the
\* objects two concurrent callers share
SharedBlob ==
    Obj("AirbyteStateBlob", <<"__ab_full_refresh_sync_complete", "cursor">>,
        [k \in PrivateNames \cup {"cursor"} |-> IF k = "cursor" THEN Str("v1") ELSE PyNone])

SharedObjects ==
    {SharedBlob, serialize(SharedBlob), EmptyDict,
     Obj("AirbyteStreamState", <<"stream_state", "stream_descriptor">>,
         [k \in {"stream_descriptor", "stream_state"} |->
             IF k = "stream_state" THEN SharedBlob ELSE Str("a")]),
     Obj("dict", <<"stream_descriptor", "stream_state">>,
         [k \in {"stream_descriptor", "stream_state"} |->
             IF k = "stream_state" THEN serialize(SharedBlob) ELSE Str("a")]),
     Obj("dict", <<"stream">>, [k \in {"stream"} |-> PyNone]),
     Obj("dict", <<"stream">>, [k \in {"stream"} |-> Str("a")]),
     Obj("dict", <<"connectionSpecification">>,
         [k \in {"connectionSpecification"} |-> Str("a")]),
     Obj("AdvancedAuth", <<"auth_flow_type", "predicate_key">>,
         [k \in {"auth_flow_type", "predicate_key"} |->
             IF k = "predicate_key" THEN Str("a") ELSE PyNone])}

(***************************************************************************)
(* The callers.  Each one calls an operation of the module on an object it *)
(* holds (Invoke...), the operation runs (Do...), and the caller takes the *)
(* result (Return).  Between the steps of one caller the others run.       *)
(***************************************************************************)
Callers == DOMAIN pc

Pool == IF Cardinality(Callers) = 1 THEN AllObjects ELSE SharedObjects

NoCall == [op |-> "None", ser |-> "None", arg |-> PyNone]

TypeOK ==
    /\ module \in [SerializerNames -> [type : RecordTypes, omit_none : BOOLEAN,
                                       custom_type_resolver : {"custom_type_resolver", "None"}]]
    /\ pc \in [Callers -> {"idle", "running", "returned"}]
    /\ codec_calls \in [Callers -> Nat]

InitFor(callers) ==
    /\ module = ModuleAtImport
    /\ pc = [c \in callers |-> "idle"]
    /\ call = [c \in callers |-> NoCall]
    /\ result = [c \in callers |-> PyNone]
    /\ codec_calls = [c \in callers |-> 0]

Init == InitFor({"c1"})

InitConcurrent == InitFor({"c1", "c2"})

Begin(c, op, ser, arg) ==
    /\ pc[c] = "idle"
    /\ pc' = [pc EXCEPT ![c] = "running"]
    /\ call' = [call EXCEPT ![c] = [op |-> op, ser |-> ser, arg |-> arg]]
    /\ UNCHANGED <<module, result, codec_calls>>

End(c, value, calls) ==
    /\ pc' = [pc EXCEPT ![c] = "returned"]
    /\ result' = [result EXCEPT ![c] = value]
    /\ codec_calls' = [codec_calls EXCEPT ![c] = calls]
    /\ UNCHANGED <<module, call>>

Running(c, op) == pc[c] = "running" /\ call[c].op = op

InvokeSerialize(c) ==
    /\ pc[c] = "idle"
    /\ \E v \in {o \in Pool : o.cls \in {"AirbyteStateBlob", "dict"}} :
        Begin(c, "serialize", "None", v)

InvokeDeserialize(c) ==
    /\ pc[c] = "idle"
    /\ \E v \in {o \in Pool : o.cls = "dict"} : Begin(c, "deserialize", "None", v)

InvokeGetJsonSchema(c) == Begin(c, "get_json_schema", "None", PyNone)

InvokeResolver(c) ==
    /\ pc[c] = "idle"
    /\ \E t \in Types : Begin(c, "custom_type_resolver", "None", Str(t))

InvokeDump(c) ==
    /\ pc[c] = "idle"
    /\ \E n \in SerializerNames :
        \E r \in {o \in Pool : o.cls = module[n].type} : Begin(c, "dump", n, r)

InvokeLoad(c) ==
    /\ pc[c] = "idle"
    /\ \E n \in SerializerNames :
        \E g \in {o \in Pool : /\ o.cls = "dict"
                               /\ DOMAIN o.items \subseteq Range(FieldNames(module[n].type))} :
            Begin(c, "load", n, g)

\* serialize that also strips the private attributes off the blob it was given
DoSerialize_in_place(c) ==
    /\ Running(c, "serialize")
    /\ pc' = [pc EXCEPT ![c] = "returned"]
    /\ result' = [result EXCEPT ![c] = serialize_public_only(call[c].arg)]
    /\ codec_calls' = [codec_calls EXCEPT ![c] = 1]
    /\ call' = [d \in Callers |->
                  IF call[d].arg = call[c].arg /\ isinstance(call[c].arg, "AirbyteStateBlob")
                  THEN [call[d] EXCEPT !.arg = AirbyteStateBlob(serialize_public_only(call[c].arg))]
                  ELSE call[d]]
    /\ UNCHANGED module

DoSerialize(c) ==
    /\ Running(c, "serialize")
    /\ End(c, serialize(call[c].arg), 1)

DoDeserialize(c) ==
    /\ Running(c, "deserialize")
    /\ End(c, deserialize(call[c].arg), 1)

DoGetJsonSchema(c) ==
    /\ Running(c, "get_json_schema")
    /\ End(c, get_json_schema, 1)

DoResolver(c) ==
    /\ Running(c, "custom_type_resolver")
    /\ End(c, IF custom_type_resolver(call[c].arg.v) = "None"
              THEN PyNone
              ELSE Str(custom_type_resolver(call[c].arg.v)), 0)

DoDump(c) ==
    /\ Running(c, "dump")
    /\ LET d == dump(module[call[c].ser], call[c].arg) IN End(c, d.out, d.calls)

DoLoad(c) ==
    /\ Running(c, "load")
    /\ LET d == load(module[call[c].ser], call[c].arg) IN End(c, d.out, d.calls)

Return(c) ==
    /\ pc[c] = "returned"
    /\ pc' = [pc EXCEPT ![c] = "idle"]
    /\ call' = [call EXCEPT ![c] = NoCall]
    /\ result' = [result EXCEPT ![c] = PyNone]
    /\ codec_calls' = [codec_calls EXCEPT ![c] = 0]
    /\ UNCHANGED module

Next ==
    \/ \E c \in Callers : InvokeSerialize(c)
    \/ \E c \in Callers : InvokeDeserialize(c)
    \/ \E c \in Callers : InvokeGetJsonSchema(c)
    \/ \E c \in Callers : InvokeResolver(c)
    \/ \E c \in Callers : InvokeDump(c)
    \/ \E c \in Callers : InvokeLoad(c)
    \/ \E c \in Callers : DoSerialize(c)
    \/ \E c \in Callers : DoDeserialize(c)
    \/ \E c \in Callers : DoGetJsonSchema(c)
    \/ \E c \in Callers : DoResolver(c)
    \/ \E c \in Callers : DoDump(c)
    \/ \E c \in Callers : DoLoad(c)
    \/ \E c \in Callers : Return(c)

Spec == Init /\ [][Next]_vars

SpecConcurrent == InitConcurrent /\ [][Next]_vars

(***************************************************************************)
(* Properties.                                                             *)
(***************************************************************************)
Returned(c, op) == pc[c] = "returned" /\ call[c].op = op

SerializerOf(c) == module[call[c].ser]

StateSerializers == {"AirbyteStreamStateSerializer", "AirbyteStateMessageSerializer",
                     "AirbyteMessageSerializer"}

\* value holds, in every field declared as a state blob, a state blob or None
RECURSIVE Typed(_, _)
Typed(t, value) ==
    \/ IsNone(value)
    \/ IF t = "AirbyteStateBlob" THEN isinstance(value, "AirbyteStateBlob")
       ELSE IF t \in RecordTypes
            THEN \A n \in DOMAIN value.items : Typed(FieldOf(t, n).type, value.items[n])
       ELSE TRUE

\* the instance value with every None attribute replaced by the field's default
RECURSIVE Defaulted(_, _)
Defaulted(t, value) ==
    IF t \in RecordTypes /\ ~IsNone(value)
    THEN Obj(t, value.order,
             [n \in DOMAIN value.items |->
                 IF IsNone(value.items[n]) THEN FieldOf(t, n).default
                 ELSE Defaulted(FieldOf(t, n).type, value.items[n])])
    ELSE value

\* C1: decoding what was encoded gives back an equal object: deserialize(serialize(b))
\* is a blob with the attributes and values of b, and load(dump(r)) equals r with
\* the None attributes that dump omitted replaced by their defaults.
C1_RoundTrip ==
    \A c \in Callers :
        /\ Returned(c, "serialize") /\ isinstance(call[c].arg, "AirbyteStateBlob")
              => /\ isinstance(deserialize(result[c]), "AirbyteStateBlob")
                 /\ deserialize(result[c]).items = call[c].arg.items
                 /\ PyEq(deserialize(result[c]), call[c].arg)
        /\ Returned(c, "dump") /\ Typed(SerializerOf(c).type, call[c].arg)
              => PyEq(load(SerializerOf(c), result[c]).out,
                      Defaulted(SerializerOf(c).type, call[c].arg))

C1_Witness ==
    \E c \in Callers :
        /\ Returned(c, "dump")
        /\ call[c].ser = "AirbyteStreamStateSerializer"
        /\ isinstance(call[c].arg.items["stream_state"], "AirbyteStateBlob")
        /\ DOMAIN call[c].arg.items["stream_state"].items = PrivateNames \cup {"cursor"}
        /\ PyEq(load(SerializerOf(c), result[c]).out, call[c].arg)

\* C2 as stated: the keys of serialize(b) are exactly the public attributes of
\* the blob b (the names without a leading underscore), each with its value.
C2_PublicOnly ==
    \A c \in Callers :
        Returned(c, "serialize") /\ isinstance(call[c].arg, "AirbyteStateBlob")
            => /\ DOMAIN result[c].items = DOMAIN call[c].arg.items \ PrivateNames
               /\ \A k \in DOMAIN result[c].items : result[c].items[k] = call[c].arg.items[k]

\* C2 amended: serialize(b) is a dict whose keys are exactly the attributes of
\* the blob b, private-looking names included, each with its value and in the
\* order of b's attribute dictionary.
C2_AllAttributes ==
    \A c \in Callers :
        Returned(c, "serialize") /\ isinstance(call[c].arg, "AirbyteStateBlob")
            => /\ isinstance(result[c], "dict")
               /\ DOMAIN result[c].items = DOMAIN call[c].arg.items
               /\ \A k \in DOMAIN result[c].items : result[c].items[k] = call[c].arg.items[k]
               /\ result[c].order = call[c].arg.order

C2_Witness ==
    \E c \in Callers :
        /\ Returned(c, "serialize")
        /\ isinstance(call[c].arg, "AirbyteStateBlob")
        /\ DOMAIN call[c].arg.items = PrivateNames \cup {"cursor"}
        /\ PrivateNames \subseteq DOMAIN result[c].items

\* C3: deserialize(m) is a state blob whose attributes are exactly the keys of m,
\* each with the value m gives it.
C3_DeserializeExact ==
    \A c \in Callers :
        Returned(c, "deserialize")
            => /\ isinstance(result[c], "AirbyteStateBlob")
               /\ DOMAIN result[c].items = DOMAIN call[c].arg.items
               /\ \A k \in DOMAIN call[c].arg.items : result[c].items[k] = call[c].arg.items[k]

C3_Witness ==
    \E c \in Callers :
        /\ Returned(c, "deserialize")
        /\ DOMAIN call[c].arg.items = PrivateNames \cup {"cursor"}
        /\ DOMAIN result[c].items = PrivateNames \cup {"cursor"}

\* no key of a declared field is emitted with None, at any depth of the instances
RECURSIVE NoNullField(_, _)
NoNullField(t, m) ==
    \A k \in DOMAIN m.items :
        /\ ~IsNone(m.items[k])
        /\ FieldOf(t, k).type \in RecordTypes => NoNullField(FieldOf(t, k).type, m.items[k])

\* C4: every serializer of the module has omit_none set, and dump never emits the
\* key of an optional field whose value is None.
C4_OmitNone ==
    /\ \A n \in SerializerNames : module[n].omit_none
    /\ \A c \in Callers :
          Returned(c, "dump")
              => /\ \A n \in OptionalNames(SerializerOf(c).type) :
                        IsNone(call[c].arg.items[n]) => n \notin DOMAIN result[c].items
                 /\ NoNullField(SerializerOf(c).type, result[c])

C4_Witness ==
    \E c \in Callers :
        /\ Returned(c, "dump")
        /\ call[c].ser = "AdvancedAuthSerializer"
        /\ IsNone(call[c].arg.items["auth_flow_type"])
        /\ DOMAIN result[c].items = {"predicate_key"}

\* the serializer s with the resolver taken away, or given when it has none
OtherResolver(s) ==
    [s EXCEPT !.custom_type_resolver = IF @ = "None" THEN "custom_type_resolver" ELSE "None"]

\* the mapping or instance m of type t without the fields declared as state blobs
RECURSIVE Strip(_, _)
Strip(t, m) ==
    IF t \in RecordTypes /\ HasItems(m)
    THEN LET keep == {k \in DOMAIN m.items : FieldOf(t, k).type # "AirbyteStateBlob"}
         IN  Obj(m.cls, SelectSeq(m.order, LAMBDA k : k \in keep),
                 [k \in keep |-> Strip(FieldOf(t, k).type, m.items[k])])
    ELSE m

\* C5: the resolver gives no codec for a type other than AirbyteStateBlob, and a
\* serializer with the resolver and the same serializer without it dump and load
\* every field that is not declared as AirbyteStateBlob to the same value.
C5_CodecIsolation ==
    \A c \in Callers :
        /\ Returned(c, "custom_type_resolver") /\ call[c].arg.v # "AirbyteStateBlob"
              => IsNone(result[c])
        /\ Returned(c, "dump")
              => Strip(SerializerOf(c).type, result[c])
                    = Strip(SerializerOf(c).type, dump(OtherResolver(SerializerOf(c)), call[c].arg).out)
        /\ Returned(c, "load")
              => Strip(SerializerOf(c).type, result[c])
                    = Strip(SerializerOf(c).type, load(OtherResolver(SerializerOf(c)), call[c].arg).out)

C5_Witness ==
    \E c \in Callers :
        /\ Returned(c, "dump")
        /\ call[c].ser = "AirbyteStreamStateSerializer"
        /\ codec_calls[c] = 1
        /\ result[c].items["stream_descriptor"] = call[c].arg.items["stream_descriptor"]
        /\ result[c] # dump(OtherResolver(SerializerOf(c)), call[c].arg).out

\* g holds a value of the declared kind for every required field of t and under
\* every key it has, at every depth
RECURSIVE Faultless(_, _)
FieldOK(t, k, v) ==
    IF IsNone(v) THEN k \notin RequiredNames(t)
    ELSE IF FieldOf(t, k).type \in RecordTypes
         THEN isinstance(v, "dict") /\ Faultless(FieldOf(t, k).type, v)
    ELSE IF FieldOf(t, k).type = "AirbyteStateBlob" THEN isinstance(v, "dict")
    ELSE isinstance(v, "str")

Faultless(t, g) ==
    /\ RequiredNames(t) \subseteq DOMAIN g.items
    /\ \A k \in DOMAIN g.items : FieldOK(t, k, g.items[k])

Alone(k) ==
    CASE k.op = "serialize" -> serialize(k.arg)
      [] k.op = "deserialize" -> deserialize(k.arg)
      [] k.op = "get_json_schema" -> get_json_schema
      [] k.op = "custom_type_resolver" ->
            IF custom_type_resolver(k.arg.v) = "None" THEN PyNone
            ELSE Str(custom_type_resolver(k.arg.v))
      [] k.op = "dump" -> dump(ModuleAtImport[k.ser], k.arg).out
      [] k.op = "load" -> load(ModuleAtImport[k.ser], k.arg).out

\* C7: whatever the interleaving of the callers, no step changes the serializers
\* of the module or the object a pending call was given, and every call returns
\* what it returns when it runs alone.
C7_Pure ==
    [][/\ module' = module
       /\ \A c \in Callers :
             /\ pc[c] # "idle" /\ pc'[c] # "idle" => call'[c] = call[c]
             /\ pc[c] = "running" /\ pc'[c] = "returned" => result'[c] = Alone(call[c])]_vars

C7_Witness ==
    /\ Callers = {"c1", "c2"}
    /\ Returned("c1", "serialize") /\ call["c1"].arg = SharedBlob
    /\ Returned("c2", "dump") /\ call["c2"].ser = "AirbyteStreamStateSerializer"
    /\ call["c2"].arg.items["stream_state"] = SharedBlob
    /\ result["c2"].items["stream_state"] = result["c1"]

\* C8: dump emits the keys of the mapping in the declaration order of the fields,
\* whatever the order of the attributes of the instance.
C8_SchemaOrder ==
    \A c \in Callers :
        Returned(c, "dump")
            => result[c].order
                  = SelectSeq(FieldNames(SerializerOf(c).type),
                              LAMBDA n : n \in DOMAIN result[c].items)

C8_Witness ==
    \E c \in Callers :
        /\ Returned(c, "dump")
        /\ call[c].ser = "ConfiguredAirbyteStreamSerializer"
        /\ call[c].arg.order = <<"cursor_field", "sync_mode", "stream">>
        /\ result[c].order = <<"stream", "sync_mode", "cursor_field">>

\* C9: serialize gives back a plain mapping as it is, and serializing its own
\* result again changes nothing.
C9_Idempotent ==
    \A c \in Callers :
        Returned(c, "serialize")
            => /\ serialize(result[c]) = result[c]
               /\ isinstance(call[c].arg, "dict") => result[c] = call[c].arg

C9_Witness ==
    \E c \in Callers :
        /\ Returned(c, "serialize")
        /\ isinstance(call[c].arg, "dict")
        /\ DOMAIN call[c].arg.items = PrivateNames \cup {"cursor"}
        /\ result[c] = call[c].arg

\* the number of state blob fields of value that hold a value, at every depth
RECURSIVE BlobFields(_, _)
BlobFields(t, value) ==
    IF IsNone(value) THEN 0
    ELSE IF t = "AirbyteStateBlob" THEN 1
    ELSE IF t \in RecordTypes /\ value.order # <<>>
         THEN BlobFields(FieldOf(t, Head(value.order)).type, value.items[Head(value.order)])
              + BlobFields(t, Obj(value.cls, Tail(value.order), value.items))
    ELSE 0

\* C10: the three state serializers are built with the resolver and call the codec
\* once for every state blob field that holds a value; the resolver gives the codec
\* for AirbyteStateBlob and for no other type; the other five serializers are built
\* without a resolver and never call the codec.
C10_CodecReach ==
    /\ \A n \in StateSerializers :
          /\ module[n].custom_type_resolver = "custom_type_resolver"
          /\ resolve(module[n], "AirbyteStateBlob") = "AirbyteStateBlobType"
    /\ \A n \in SerializerNames \ StateSerializers : module[n].custom_type_resolver = "None"
    /\ \A c \in Callers :
          /\ Returned(c, "custom_type_resolver")
                => (result[c] = Str("AirbyteStateBlobType") <=> call[c].arg.v = "AirbyteStateBlob")
          /\ Returned(c, "custom_type_resolver") /\ call[c].arg.v # "AirbyteStateBlob"
                => IsNone(result[c])
          /\ (Returned(c, "dump") \/ Returned(c, "load")) /\ call[c].ser \notin StateSerializers
                => codec_calls[c] = 0
          /\ Returned(c, "dump") /\ call[c].ser \in StateSerializers
                => codec_calls[c] = BlobFields(SerializerOf(c).type, call[c].arg)

C10_Witness ==
    \E c \in Callers :
        /\ Returned(c, "dump")
        /\ call[c].ser = "AirbyteMessageSerializer"
        /\ codec_calls[c] = 1
        /\ PrivateNames \subseteq DOMAIN result[c].items["state"].items["stream"].items["stream_state"].items

====
